---- MODULE Spec2Model ----
(***************************************************************************)
(* CredentialSelector (credential-selector.tsx): the React component that  *)
(* fetches the OAuth credentials of a provider, keeps a selection among    *)
(* them and names the provider.                                            *)
(*                                                                         *)
(* Strings that the code takes apart (provider ids, service ids, display   *)
(* names) are sequences of one-character strings; credential ids, which    *)
(* the code only compares, are TLA+ strings ("" is the empty id).          *)
(* One action is one event of the UI event loop: the handler, the render   *)
(* it causes and the passive effects of that render, up to the render      *)
(* that schedules nothing more (React batches the state updates of one     *)
(* handler or one promise continuation into a single render).              *)
(***************************************************************************)
EXTENDS Naturals, Sequences, FiniteSets

VARIABLES
    pc,               \* "init" (not mounted), "mounted", "crashed" (render threw), "lookup"
    value,            \* prop value: what the parent stores and passes back
    provider,         \* prop provider
    serviceId,        \* prop serviceId (<<>>: not supplied)
    requiredScopes,   \* prop requiredScopes
    open,             \* useState open
    credentials,      \* useState credentials (meaningful while credentialsIsArray)
    credentialsIsArray, \* FALSE once setCredentials was handed a non-array
    isLoading,        \* useState isLoading
    selectedId,       \* useState selectedId
    initialFetchRef,  \* useRef initialFetchRef
    fcServiceId,      \* serviceId captured by the memoized fetchCredentials
    fcScopes,         \* requiredScopes captured by the memoized fetchCredentials
    inflight,         \* fetches awaiting their response, in issue order: the
                      \* selectedId each one's closure captured
    registry,         \* OAUTH_PROVIDERS
    issued,           \* history: the fetches the last event issued
    notified,         \* history: the onChange calls of the last event
    last,             \* history: the last event. op: "ok" or "fail" for a response,
                      \* else "event"; single: the response answered the only
                      \* fetch in flight, issued by the event before; idx: the
                      \* place in issue order of the fetch an OK response answered;
                      \* late: an OK response to a fetch issued before the fetch
                      \* whose OK response was applied by the event before;
                      \* providerChanged: the event changed the provider prop
    lastApplied,      \* history: the list of the OK response applied last
    endpoint,         \* the credentials endpoint. fixed: from now on it answers
                      \* every request with list; fetches: the fetches issued
                      \* since then (counted up to MaxFetches)
    nameResult,       \* result of getProviderName(provider) (lookup runs)
    iconResult        \* result of getProviderIcon(provider) (lookup runs)

vars == <<pc, value, provider, serviceId, requiredScopes, open, credentials,
          credentialsIsArray, isLoading, selectedId, initialFetchRef, fcServiceId,
          fcScopes, inflight, registry, issued, notified, last, lastApplied,
          endpoint, nameResult, iconResult>>

\* ---------------------------------------------------------------- bounds
MaxCreds == 2
MaxInFlight == 2
MaxStr == 3
MaxFetches == 3

\* ---------------------------------------------------------------- strings
Chars == {"g", "s", "-"}

toUpperCase(c) == IF c = "g" THEN "G" ELSE IF c = "s" THEN "S" ELSE c

includesDash(s) == \E i \in 1..Len(s) : s[i] = "-"

RECURSIVE splitFrom(_, _, _)
\* s.split('-'), scanning from index i with the segment cur open
splitFrom(s, i, cur) ==
    IF i > Len(s) THEN <<cur>>
    ELSE IF s[i] = "-" THEN <<cur>> \o splitFrom(s, i + 1, <<>>)
    ELSE splitFrom(s, i + 1, Append(cur, s[i]))

split(s) == splitFrom(s, 1, <<>>)

capitalize(part) ==
    IF part = <<>> THEN <<>> ELSE <<toUpperCase(part[1])>> \o Tail(part)

RECURSIVE joinSpace(_)
joinSpace(parts) ==
    IF Len(parts) = 0 THEN <<>>
    ELSE IF Len(parts) = 1 THEN parts[1]
    ELSE parts[1] \o <<" ">> \o joinSpace(Tail(parts))

RECURSIVE StringsOfLen(_)
StringsOfLen(n) ==
    IF n = 0 THEN {<<>>}
    ELSE {Append(s, c) : s \in StringsOfLen(n - 1), c \in Chars}

\* the non-empty provider id strings of at most MaxStr characters
ProviderStrings == UNION {StringsOfLen(n) : n \in 1..MaxStr}

\* ---------------------------------------------------------------- registry
\* OAUTH_PROVIDERS: base provider entries, each with its services in
\* Object.entries order. A service: key, providerId, name, icon, scopes.
Svc(k, pid, n, ic, sc) ==
    [key |-> k, providerId |-> pid, name |-> n, icon |-> ic, scopes |-> sc]

OAUTH_PROVIDERS ==
    << [key |-> <<"g">>, name |-> <<"G", "o">>, icon |-> "icon:g",
        services |-> << Svc(<<"x">>, <<"g", "-", "x">>, <<"X">>, "icon:g-x", {}),
                        Svc(<<"s">>, <<"g", "-", "s">>, <<"S", "h">>, "icon:g-s", {"r"}) >>] >>

\* a registry whose services are found only by their full id or providerId
RegistryAlt ==
    << [key |-> <<"g">>, name |-> <<"G", "o">>, icon |-> "icon:g",
        services |-> << Svc(<<"x">>, <<"g", "-", "g">>, <<"X">>, "icon:g-g", {}) >>],
       [key |-> <<"s">>, name |-> <<"S", "l">>, icon |-> "icon:s",
        services |-> << Svc(<<"s", "-", "g">>, <<"s">>, <<"S", "g">>, "icon:s-g", {"r"}) >>] >>

\* a registry with a base provider and no service
RegistryBaseOnly ==
    << [key |-> <<"g">>, name |-> <<"G", "o">>, icon |-> "icon:g", services |-> <<>>] >>

Registries == {<<>>, RegistryBaseOnly, OAUTH_PROVIDERS, RegistryAlt}

\* OAUTH_PROVIDERS[key]: the index of the entry, 0 when there is none (undefined)
providerIndex(reg, key) ==
    IF \E i \in 1..Len(reg) : reg[i].key = key
    THEN CHOOSE i \in 1..Len(reg) : reg[i].key = key
    ELSE 0

\* the least index of the set S, 0 when S is empty: what find() or a for..of
\* loop with a return reaches first
FirstIndex(S) ==
    IF S = {} THEN 0 ELSE CHOOSE i \in S : \A j \in S : i <= j

parseProvider(p) ==
    [baseProvider |-> IF includesDash(p) THEN split(p)[1] ELSE p]

\* the service of the exact (provider, service id) pair; threw when there is none
getServiceByProviderAndId(reg, p, sid) ==
    LET pi == providerIndex(reg, p)
        si == IF pi = 0 THEN 0
              ELSE FirstIndex({i \in 1..Len(reg[pi].services) :
                                  reg[pi].services[i].key = sid})
    IN  IF si = 0 THEN [threw |-> TRUE, name |-> <<>>]
        ELSE [threw |-> FALSE, name |-> reg[pi].services[si].name]

\* the registry's scope-to-service mapping: the first service of the base
\* provider that grants one of the scopes, else its first service, else the
\* provider id itself
getServiceIdFromScopes(reg, p, scopes) ==
    LET pi == providerIndex(reg, parseProvider(p).baseProvider)
    IN  IF pi = 0 \/ reg[pi].services = <<>> THEN p
        ELSE LET si == FirstIndex({k \in 1..Len(reg[pi].services) :
                                     \E i \in 1..Len(scopes) :
                                         scopes[i] \in reg[pi].services[k].scopes})
             IN  reg[pi].services[IF si = 0 THEN 1 ELSE si].key

\* the registry's service-to-provider mapping; the service id itself when
\* no service has that id
getProviderIdFromServiceId(reg, sid) ==
    LET pi == FirstIndex({k \in 1..Len(reg) :
                             \E i \in 1..Len(reg[k].services) :
                                 reg[k].services[i].key = sid})
    IN  IF pi = 0 THEN sid
        ELSE reg[pi].services[FirstIndex({i \in 1..Len(reg[pi].services) :
                                             reg[pi].services[i].key = sid})].providerId

\* ---------------------------------------------------------------- resolution
\* getServiceId of a render with props p (provider, serviceId, requiredScopes)
getServiceId(reg, p) ==
    IF p.serviceId # <<>> THEN p.serviceId
    ELSE getServiceIdFromScopes(reg, p.provider, p.requiredScopes)

\* getProviderId: effectiveServiceId is computed once, then looked up
getProviderId(reg, p) ==
    CHOOSE id \in {getProviderIdFromServiceId(reg, effectiveServiceId) :
                      effectiveServiceId \in {getServiceId(reg, p)}} : TRUE

Props(pv, sid, sc) == [provider |-> pv, serviceId |-> sid, requiredScopes |-> sc]

\* ---------------------------------------------------------------- inputs
CredIds == {"a", "b"}
Values == {""} \cup CredIds

Credential == [id : CredIds, isDefault : BOOLEAN]

RECURSIVE ListsOfLen(_)
\* the credential lists of n entries with pairwise different ids
ListsOfLen(n) ==
    IF n = 0 THEN {<<>>}
    ELSE UNION {{Append(l, cr) :
                    cr \in {c \in Credential : \A i \in 1..Len(l) : l[i].id # c.id}} :
                l \in ListsOfLen(n - 1)}

CredentialLists == UNION {ListsOfLen(n) : n \in 0..MaxCreds}

\* the (provider, serviceId, requiredScopes) props the parent passes: each
\* prop takes two values
PropsSet ==
    { Props(<<"g">>, <<>>, <<>>),
      Props(<<"g">>, <<>>, <<"r">>),
      Props(<<"g">>, <<"x">>, <<"r">>),
      Props(<<"g", "-", "s">>, <<>>, <<"r">>) }

\* what a fetch can end with: an OK response with a credential list, a non-OK
\* response, fetch() rejecting, response.json() rejecting, an OK body without
\* a credentials array
FailureKinds == {"notOk", "networkError", "parseError", "badShape"}
Responses ==
    {[kind |-> "ok", list |-> l] : l \in CredentialLists} \cup
    {[kind |-> k, list |-> <<>>] : k \in FailureKinds}

\* ---------------------------------------------------------------- component
\* The component as one record: props, state, the memoized fetchCredentials
\* closure, the fetches in flight, and the history of the running event.
Component ==
    [value |-> value, provider |-> provider, serviceId |-> serviceId,
     requiredScopes |-> requiredScopes, open |-> open, credentials |-> credentials,
     credentialsIsArray |-> credentialsIsArray, isLoading |-> isLoading,
     selectedId |-> selectedId, initialFetchRef |-> initialFetchRef,
     fcServiceId |-> fcServiceId, fcScopes |-> fcScopes, inflight |-> inflight,
     issued |-> <<>>, notified |-> <<>>, crashed |-> FALSE]

setCredentials(c, list) == [c EXCEPT !.credentials = list]
setSelectedId(c, id) == [c EXCEPT !.selectedId = id]
setIsLoading(c, b) == [c EXCEPT !.isLoading = b]
setOpen(c, b) == [c EXCEPT !.open = b]

\* the parent's callback: it stores the id and passes it back as value
onChange(c, id) == [c EXCEPT !.value = id, !.notified = Append(@, id)]

some(list, id) == \E i \in 1..Len(list) : list[i].id = id

\* fetchCredentials up to its first await, run with the closure cl of the
\* render that created it
fetchCredentials(reg, c, cl, by) ==
    [setIsLoading(c, TRUE) EXCEPT
        !.inflight = Append(@, cl.selectedId),
        !.issued = Append(@, [providerId |-> getProviderId(reg, cl), by |-> by])]

\* applyCredentials selecting a default only when exactly one credential is
\* flagged isDefault
applyCredentialsExactlyOne(c, sel, list) ==
    LET c1 == [c EXCEPT !.credentials = list]
        c2 == IF sel # "" /\ ~(\E i \in 1..Len(list) : list[i].id = sel)
              THEN [c1 EXCEPT !.selectedId = "", !.value = "",
                              !.notified = Append(@, "")]
              ELSE c1
        ds == {i \in 1..Len(list) : list[i].isDefault}
        pick(id) == [c2 EXCEPT !.selectedId = id, !.value = id,
                               !.notified = Append(@, id)]
    IN  IF (sel = "" \/ ~(\E i \in 1..Len(list) : list[i].id = sel)) /\ Len(list) > 0
        THEN IF Cardinality(ds) = 1
             THEN pick(list[CHOOSE i \in ds : TRUE].id)
             ELSE IF Len(list) = 1 THEN pick(list[1].id) ELSE c2
        ELSE c2

\* applyCredentials clearing the selection when it IS in the list (the test of
\* line 78 without its negation)
applyCredentialsClearListed(c, sel, list) ==
    LET c1 == [c EXCEPT !.credentials = list]
        c2 == IF sel # "" /\ (\E i \in 1..Len(list) : list[i].id = sel)
              THEN [c1 EXCEPT !.selectedId = "", !.value = "",
                              !.notified = Append(@, "")]
              ELSE c1
        ds == {i \in 1..Len(list) : list[i].isDefault}
        first == IF ds = {} THEN 0 ELSE CHOOSE i \in ds : \A j \in ds : i <= j
        pick(id) == [c2 EXCEPT !.selectedId = id, !.value = id,
                               !.notified = Append(@, id)]
    IN  IF (sel = "" \/ ~(\E i \in 1..Len(list) : list[i].id = sel)) /\ Len(list) > 0
        THEN IF first # 0
             THEN pick(list[first].id)
             ELSE IF Len(list) = 1 THEN pick(list[1].id) ELSE c2
        ELSE c2

\* the body of fetchCredentials after an OK response with data.credentials = list;
\* sel is the selectedId the closure captured
applyCredentials(c, sel, list) ==
    LET c1 == setCredentials(c, list)
        c2 == IF sel # "" /\ ~some(list, sel)
              THEN onChange(setSelectedId(c1, ""), "")
              ELSE c1
        d == FirstIndex({i \in 1..Len(list) : list[i].isDefault})
    IN  IF (sel = "" \/ ~some(list, sel)) /\ Len(list) > 0
        THEN IF d # 0
             THEN onChange(setSelectedId(c2, list[d].id), list[d].id)
             ELSE IF Len(list) = 1
                  THEN onChange(setSelectedId(c2, list[1].id), list[1].id)
                  ELSE c2
        ELSE c2

\* resumeFetch dropping a response while another fetch is still in flight
resumeFetchDropStale(c, sel, resp) ==
    IF resp.kind = "ok" /\ c.inflight = <<>>
    THEN [applyCredentials(c, sel, resp.list) EXCEPT !.isLoading = FALSE]
    ELSE IF resp.kind = "badShape"
    THEN [c EXCEPT !.credentials = <<>>, !.credentialsIsArray = FALSE,
                   !.isLoading = FALSE]
    ELSE [c EXCEPT !.isLoading = FALSE]

\* fetchCredentials from its first await on, for the response resp
resumeFetch(c, sel, resp) ==
    LET body ==
            IF resp.kind = "ok" THEN applyCredentials(c, sel, resp.list)
            ELSE IF resp.kind = "badShape"
            \* setCredentials(undefined) runs, then .some or .length throws
            THEN [c EXCEPT !.credentials = <<>>, !.credentialsIsArray = FALSE]
            ELSE c
    IN  setIsLoading(body, FALSE)

\* mountEffect without the initialFetchRef guard
mountEffectNoRef(reg, c, cl, run) ==
    IF run
    THEN [fetchCredentials(reg, c, cl, "mount") EXCEPT !.initialFetchRef = TRUE]
    ELSE c

\* useEffect(..., [fetchCredentials]): the initial fetch
mountEffect(reg, c, cl, run) ==
    IF run /\ ~c.initialFetchRef
    THEN [fetchCredentials(reg, c, cl, "mount") EXCEPT !.initialFetchRef = TRUE]
    ELSE c

\* useEffect(..., [open, fetchCredentials]): fetch while the popover is open
openEffect(reg, c, cl, run, isOpen) ==
    IF run /\ isOpen THEN fetchCredentials(reg, c, cl, "open") ELSE c

\* useEffect(..., [value]): follow the external value
valueEffect(c, run, v) == IF run THEN setSelectedId(c, v) ELSE c

RECURSIVE render(_, _, _, _, _)
\* One render of the state cur after the committed render prev, and its passive
\* effects; again while an effect changed the state. newOnChange: the parent
\* passed another onChange function; mount: the first render.
render(reg, prev, cur, newOnChange, mount) ==
    IF ~cur.credentialsIsArray
    THEN [cur EXCEPT !.crashed = TRUE]   \* credentials.find throws
    ELSE
    LET fcChanged == \/ mount
                     \/ newOnChange
                     \/ cur.provider # prev.provider
                     \/ cur.selectedId # prev.selectedId
        r == IF fcChanged
             THEN [cur EXCEPT !.fcServiceId = cur.serviceId,
                              !.fcScopes = cur.requiredScopes]
             ELSE cur
        cl == [provider |-> r.provider, serviceId |-> r.fcServiceId,
               requiredScopes |-> r.fcScopes, selectedId |-> r.selectedId]
        e1 == mountEffect(reg, r, cl, fcChanged)
        e2 == openEffect(reg, e1, cl, mount \/ fcChanged \/ cur.open # prev.open, r.open)
        e3 == valueEffect(e2, mount \/ cur.value # prev.value, r.value)
    IN  IF e3.isLoading = r.isLoading /\ e3.selectedId = r.selectedId
        THEN e3
        \* the next render, of the committed r and the state e3 the effects left
        ELSE CHOOSE c \in {render(reg, p, n, FALSE, FALSE) : p \in {r}, n \in {e3}} : TRUE

\* handleSelect without the onChange call
handleSelectSilent(c, credentialId) ==
    [c EXCEPT !.selectedId = credentialId, !.open = FALSE]

\* handleSelect up to its return
handleSelect(c, credentialId) ==
    setOpen(onChange(setSelectedId(c, credentialId), credentialId), FALSE)

\* ---------------------------------------------------------------- actions
RemoveAt(seq, i) == SubSeq(seq, 1, i - 1) \o SubSeq(seq, i + 1, Len(seq))

\* the state after an event that left the component as c
Commit(c, op, single, idx, late) ==
    /\ Len(c.inflight) <= MaxInFlight
    /\ pc' = IF c.crashed THEN "crashed" ELSE "mounted"
    /\ value' = c.value
    /\ provider' = c.provider
    /\ serviceId' = c.serviceId
    /\ requiredScopes' = c.requiredScopes
    /\ open' = c.open
    /\ credentials' = c.credentials
    /\ credentialsIsArray' = c.credentialsIsArray
    /\ isLoading' = c.isLoading
    /\ selectedId' = c.selectedId
    /\ initialFetchRef' = c.initialFetchRef
    /\ fcServiceId' = c.fcServiceId
    /\ fcScopes' = c.fcScopes
    /\ inflight' = c.inflight
    /\ issued' = c.issued
    /\ notified' = c.notified
    /\ last' = [op |-> op, single |-> single, idx |-> idx, late |-> late,
                providerChanged |-> c.provider # provider]
    /\ endpoint' = IF endpoint.fixed
                   THEN [endpoint EXCEPT !.fetches =
                            IF @ + Len(c.issued) > MaxFetches
                            THEN MaxFetches
                            ELSE @ + Len(c.issued)]
                   ELSE endpoint
    /\ UNCHANGED <<registry, nameResult, iconResult>>

\* the component mounts: first render and its effects
Mount ==
    /\ pc = "init"
    /\ Commit(render(registry, Component, Component, FALSE, TRUE), "event", FALSE, 0, FALSE)
    /\ UNCHANGED lastApplied

\* onOpenChange(true): the user opens the popover
OpenPopover ==
    /\ pc = "mounted" /\ ~open
    /\ Commit(render(registry, Component, setOpen(Component, TRUE), FALSE, FALSE),
              "event", FALSE, 0, FALSE)
    /\ UNCHANGED lastApplied

\* onOpenChange(false): the user dismisses the popover
ClosePopover ==
    /\ pc = "mounted" /\ open
    /\ Commit(render(registry, Component, setOpen(Component, FALSE), FALSE, FALSE),
              "event", FALSE, 0, FALSE)
    /\ UNCHANGED lastApplied

\* the user picks a listed credential
HandleSelect(credentialId) ==
    /\ pc = "mounted" /\ open /\ some(credentials, credentialId)
    /\ Commit(render(registry, Component, handleSelect(Component, credentialId),
                     FALSE, FALSE),
              "event", FALSE, 0, FALSE)
    /\ UNCHANGED lastApplied

\* the parent passes another value
ExternalValueChange(v) ==
    /\ pc = "mounted" /\ v # value
    /\ Commit(render(registry, Component, [Component EXCEPT !.value = v], FALSE, FALSE),
              "event", FALSE, 0, FALSE)
    /\ UNCHANGED lastApplied

\* the parent passes other provider, serviceId or requiredScopes props
PropsChange(p) ==
    /\ pc = "mounted"
    /\ p # Props(provider, serviceId, requiredScopes)
    /\ Commit(render(registry, Component,
                     [Component EXCEPT !.provider = p.provider,
                                       !.serviceId = p.serviceId,
                                       !.requiredScopes = p.requiredScopes],
                     FALSE, FALSE),
              "event", FALSE, 0, FALSE)
    /\ UNCHANGED lastApplied

\* the parent passes another onChange function
NewOnChange ==
    /\ pc = "mounted"
    /\ Commit(render(registry, Component, Component, TRUE, FALSE), "event", FALSE, 0, FALSE)
    /\ UNCHANGED lastApplied

\* the i-th fetch in flight ends with resp: the rest of fetchCredentials runs
Resolve(i, resp) ==
    /\ pc = "mounted"
    /\ i \in 1..Len(inflight)
    /\ LET c0 == [Component EXCEPT !.inflight = RemoveAt(inflight, i)]
       IN  /\ \E c1 \in {resumeFetch(c0, inflight[i], resp)} :
               \E c \in {render(registry, Component, c1, FALSE, FALSE)} :
                 Commit(c,
                     IF resp.kind = "ok" THEN "ok" ELSE "fail",
                     Len(inflight) = 1 /\ Len(issued) = 1,
                     IF resp.kind = "ok" THEN i ELSE 0,
                     resp.kind = "ok" /\ i < last.idx)
           /\ lastApplied' = IF resp.kind = "ok"
                             THEN [any |-> TRUE, list |-> resp.list]
                             ELSE lastApplied

\* a fetch ends after the render threw: the setters do nothing, the parent's
\* onChange still runs
ResolveUnmounted(i, resp) ==
    /\ pc = "crashed"
    /\ i \in 1..Len(inflight)
    /\ LET c1 == resumeFetch(Component, inflight[i], resp)
       IN  /\ value' = c1.value
           /\ notified' = c1.notified
    /\ inflight' = RemoveAt(inflight, i)
    /\ issued' = <<>>
    /\ last' = [op |-> IF resp.kind = "ok" THEN "ok" ELSE "fail",
                single |-> FALSE, idx |-> 0, late |-> FALSE,
                providerChanged |-> FALSE]
    /\ UNCHANGED <<pc, provider, serviceId, requiredScopes, open, credentials,
                   credentialsIsArray, isLoading, selectedId, initialFetchRef,
                   fcServiceId, fcScopes, registry, lastApplied, endpoint,
                   nameResult, iconResult>>

NoResult == [done |-> FALSE, val |-> <<>>]

\* an endpoint that may answer each request differently
AnyAnswer == [fixed |-> FALSE, list |-> <<>>, fetches |-> 0]

\* before the component mounts, for every props the parent can pass
Init ==
    /\ pc = "init"
    /\ value \in Values
    /\ \E p \in PropsSet : /\ provider = p.provider
                           /\ serviceId = p.serviceId
                           /\ requiredScopes = p.requiredScopes
    /\ open = FALSE
    /\ credentials = <<>>
    /\ credentialsIsArray = TRUE
    /\ isLoading = FALSE
    /\ selectedId = value
    /\ initialFetchRef = FALSE
    /\ fcServiceId = serviceId
    /\ fcScopes = requiredScopes
    /\ inflight = <<>>
    /\ registry = OAUTH_PROVIDERS
    /\ issued = <<>>
    /\ notified = <<>>
    /\ last = [op |-> "event", single |-> FALSE, idx |-> 0, late |-> FALSE,
               providerChanged |-> FALSE]
    /\ lastApplied = [any |-> FALSE, list |-> <<>>]
    /\ endpoint = AnyAnswer
    /\ nameResult = NoResult
    /\ iconResult = NoResult

Next ==
    \/ Mount
    \/ OpenPopover
    \/ ClosePopover
    \/ \E id \in CredIds : HandleSelect(id)
    \/ \E v \in Values : ExternalValueChange(v)
    \/ \E p \in PropsSet : PropsChange(p)
    \/ NewOnChange
    \/ \E i \in 1..MaxInFlight, resp \in Responses : Resolve(i, resp)
    \/ \E i \in 1..MaxInFlight, resp \in Responses : ResolveUnmounted(i, resp)

Spec == Init /\ [][Next]_vars

\* Every fetch that was issued ends: the browser settles the promise of fetch()
\* and runs the continuation. Nothing obliges the user or the parent to act.
FairSpec == Spec /\ WF_vars(\E i \in 1..MaxInFlight, resp \in Responses : Resolve(i, resp))

\* With the popover open, the endpoint starts to answer every request, those
\* in flight included, with the list R; the user and the parent stay away.
FixEndpoint(R) ==
    /\ pc = "mounted" /\ open
    /\ ~endpoint.fixed
    /\ endpoint' = [fixed |-> TRUE, list |-> R, fetches |-> 0]
    /\ UNCHANGED <<pc, value, provider, serviceId, requiredScopes, open, credentials,
                   credentialsIsArray, isLoading, selectedId, initialFetchRef,
                   fcServiceId, fcScopes, inflight, registry, issued, notified, last,
                   lastApplied, nameResult, iconResult>>

\* the i-th fetch in flight is answered by the fixed endpoint
Settle(i) ==
    /\ endpoint.fixed
    /\ Resolve(i, [kind |-> "ok", list |-> endpoint.list])

\* the props provider, serviceId and requiredScopes stay as passed at mount:
\* they decide the provider id a fetch asks for and nothing else
LoopInit ==
    /\ Init
    /\ Props(provider, serviceId, requiredScopes) = Props(<<"g">>, <<>>, <<"r">>)

\* any run of the component with any answers up to a state with the popover
\* open, then only the answers of the fixed endpoint
LoopNext ==
    \/ ~endpoint.fixed /\ Mount
    \/ ~endpoint.fixed /\ OpenPopover
    \/ ~endpoint.fixed /\ ClosePopover
    \/ ~endpoint.fixed /\ \E id \in CredIds : HandleSelect(id)
    \/ ~endpoint.fixed /\ \E v \in Values : ExternalValueChange(v)
    \/ ~endpoint.fixed /\ NewOnChange
    \/ ~endpoint.fixed /\ \E i \in 1..MaxInFlight, resp \in Responses : Resolve(i, resp)
    \/ ~endpoint.fixed /\ \E i \in 1..MaxInFlight, resp \in Responses :
                               ResolveUnmounted(i, resp)
    \/ \E R \in CredentialLists : FixEndpoint(R)
    \/ \E i \in 1..MaxInFlight : Settle(i)

\* every fetch issued is answered
LoopSpec ==
    LoopInit /\ [][LoopNext]_vars /\ WF_vars(\E i \in 1..MaxInFlight : Settle(i))

\* ---------------------------------------------------------------- lookups
Returned(v) == [done |-> TRUE, val |-> v]

\* the services of the base provider's entry that the compound-provider loop
\* of getProviderName accepts for providerName
nameMatches(svc, providerName) ==
    \/ svc.key = split(providerName)[2]
    \/ svc.key = providerName
    \/ svc.providerId = providerName

\* getProviderName without the fallback to the base provider's name
getProviderNameNoBase(reg, p, providerName) ==
    LET service == getServiceByProviderAndId(reg, providerName, getServiceId(reg, p))
        pi == providerIndex(reg, parseProvider(providerName).baseProvider)
        si == IF pi # 0 /\ includesDash(providerName)
              THEN FirstIndex({i \in 1..Len(reg[pi].services) :
                                  nameMatches(reg[pi].services[i], providerName)})
              ELSE 0
    IN  IF ~service.threw THEN Returned(service.name)
        ELSE IF si # 0 THEN Returned(reg[pi].services[si].name)
        ELSE LET parts == split(providerName)
             IN  Returned(joinSpace([i \in 1..Len(parts) |-> capitalize(parts[i])]))

\* getProviderName(providerName), called in a render with props p
getProviderName(reg, p, providerName) ==
    LET effectiveServiceId == getServiceId(reg, p)
        service == getServiceByProviderAndId(reg, providerName, effectiveServiceId)
        pi == providerIndex(reg, parseProvider(providerName).baseProvider)
        si == IF pi # 0 /\ includesDash(providerName)
              THEN FirstIndex({i \in 1..Len(reg[pi].services) :
                                  nameMatches(reg[pi].services[i], providerName)})
              ELSE 0
    IN  IF ~service.threw THEN Returned(service.name)
        ELSE IF si # 0 THEN Returned(reg[pi].services[si].name)
        ELSE IF pi # 0 THEN Returned(reg[pi].name)
        ELSE LET parts == split(providerName)
             IN  Returned(joinSpace([i \in 1..Len(parts) |-> capitalize(parts[i])]))

\* getProviderIcon(providerName)
getProviderIcon(reg, providerName) ==
    LET pi == providerIndex(reg, parseProvider(providerName).baseProvider)
        si == IF pi # 0 /\ includesDash(providerName)
              THEN FirstIndex({i \in 1..Len(reg[pi].services) :
                                  reg[pi].services[i].providerId = providerName})
              ELSE 0
    IN  IF pi = 0 THEN Returned("ExternalLink")
        ELSE IF si # 0 THEN Returned(reg[pi].services[si].icon)
        ELSE Returned(reg[pi].icon)

\* a render names the provider: getProviderName(provider), getProviderIcon(provider)
Lookup ==
    /\ pc = "lookup"
    /\ ~nameResult.done
    /\ nameResult' = getProviderName(registry, Props(provider, serviceId, requiredScopes),
                                     provider)
    /\ iconResult' = getProviderIcon(registry, provider)
    /\ UNCHANGED <<pc, value, provider, serviceId, requiredScopes, open, credentials,
                   credentialsIsArray, isLoading, selectedId, initialFetchRef,
                   fcServiceId, fcScopes, inflight, registry, issued, notified, last,
                   lastApplied, endpoint>>

\* every provider id string, registry content and service id props
LookupInit ==
    /\ pc = "lookup"
    /\ registry \in Registries
    /\ provider \in ProviderStrings
    /\ serviceId \in {<<>>, <<"s">>, <<"x">>}
    /\ requiredScopes \in {<<>>, <<"r">>}
    /\ value = ""
    /\ open = FALSE
    /\ credentials = <<>>
    /\ credentialsIsArray = TRUE
    /\ isLoading = FALSE
    /\ selectedId = value
    /\ initialFetchRef = FALSE
    /\ fcServiceId = serviceId
    /\ fcScopes = requiredScopes
    /\ inflight = <<>>
    /\ issued = <<>>
    /\ notified = <<>>
    /\ last = [op |-> "event", single |-> FALSE, idx |-> 0, late |-> FALSE,
               providerChanged |-> FALSE]
    /\ lastApplied = [any |-> FALSE, list |-> <<>>]
    /\ endpoint = AnyAnswer
    /\ nameResult = NoResult
    /\ iconResult = NoResult

LookupNext == Lookup

LookupSpec == LookupInit /\ [][LookupNext]_vars

\* ---------------------------------------------------------------- claims
\* the step applied an OK response to the mounted component (its list is
\* lastApplied'.list)
AppliedOk == pc = "mounted" /\ last'.op = "ok"

\* the id of the first credential of list flagged isDefault ("" when none is)
FirstDefaultId(list) ==
    LET d == FirstIndex({i \in 1..Len(list) : list[i].isDefault})
    IN  IF d = 0 THEN "" ELSE list[d].id

Defaults(list) == {i \in 1..Len(list) : list[i].isDefault}

\* C1: when an OK response with list R is applied and the selection S held just
\* before is non-empty and the id of a credential of R, the selection stays S and
\* onChange is not called, whatever happened since the fetch was issued.
C1_KeepSelection ==
    [][(AppliedOk /\ selectedId # "" /\ some(lastApplied'.list, selectedId))
          => (selectedId' = selectedId /\ notified' = <<>>)]_vars

\* C2 as stated: for a single fetch with no other event between issue and
\* response, and a prior selection that is not in R: the id of the credential
\* flagged isDefault if exactly one is; else R[0].id if R has one entry; else "".
C2_ExactlyOneDefault ==
    [][(AppliedOk /\ last'.single /\ ~some(lastApplied'.list, selectedId))
          => LET R == lastApplied'.list
             IN  selectedId' =
                    IF Cardinality(Defaults(R)) = 1 THEN FirstDefaultId(R)
                    ELSE IF Len(R) = 1 THEN R[1].id
                    ELSE ""]_vars

\* C2 amended: for a single fetch with no other event between issue and
\* response, and a prior selection that is not in R: the id of the first
\* credential of R flagged isDefault if any is; else R[0].id if R has one
\* entry; else "".
C2_FirstDefault ==
    [][(AppliedOk /\ last'.single /\ ~some(lastApplied'.list, selectedId))
          => LET R == lastApplied'.list
             IN  selectedId' =
                    IF Defaults(R) # {} THEN FirstDefaultId(R)
                    ELSE IF Len(R) = 1 THEN R[1].id
                    ELSE ""]_vars

\* a single undisturbed fetch returned two default credentials, the prior
\* selection was not among them, and the first default got selected
C2_Witness ==
    /\ pc = "mounted" /\ last.op = "ok" /\ last.single
    /\ Cardinality(Defaults(credentials)) = 2
    /\ notified = <<selectedId>>
    /\ selectedId = FirstDefaultId(credentials)

\* C3: once an OK response has been applied, selectedId is empty or the id of a
\* credential of the cached list, in every state.
C3_SelectionInvariant ==
    (pc = "mounted" /\ lastApplied.any)
        => (selectedId = "" \/ some(credentials, selectedId))

\* C4: a fetch that fails (non-OK response, rejected fetch, unparsable body, body
\* without a credentials array) leaves selectedId and the cached list as they
\* were, calls no onChange, is not retried, and sets isLoading to false.
C4_FailureLeavesState ==
    [][(pc = "mounted" /\ last'.op = "fail")
          => /\ pc' = "mounted"
             /\ selectedId' = selectedId
             /\ credentials' = credentials
             /\ credentialsIsArray' = credentialsIsArray
             /\ notified' = <<>>
             /\ issued' = <<>>
             /\ isLoading' = FALSE]_vars

\* C5: every selectedId the selector sets itself is passed to onChange, so with
\* a parent that stores what it is notified of and passes it back, selectedId
\* equals the parent's value whenever the component is at rest, and the last
\* onChange call of an event carried the selectedId the event left.
C5_CallbackSync ==
    pc = "mounted"
        => /\ selectedId = value
           /\ notified # <<>> => notified[Len(notified)] = selectedId

\* at rest with no fetch in flight, after a response cleared a stale selection
\* and auto-selected another credential (two onChange calls)
C5_Witness ==
    /\ pc = "mounted" /\ inflight = <<>> /\ last.op = "ok"
    /\ notified = <<"", selectedId>>
    /\ selectedId # ""
    /\ value = selectedId

\* C6: the cached list is the list of the OK response applied last, whatever
\* the order in which the overlapping fetches were issued.
C6_LastResponseWins ==
    (pc = "mounted" /\ lastApplied.any) => credentials = lastApplied.list

\* all overlapping fetches have resolved, and the response applied last answered
\* a request issued before the request whose response was applied just before it
C6_Witness ==
    /\ pc = "mounted" /\ inflight = <<>>
    /\ last.op = "ok" /\ last.late
    /\ credentials = lastApplied.list
    /\ credentials # <<>>

\* C7: isLoading is true exactly while a fetch of the instance is outstanding.
C7_LoadingIndicator ==
    pc = "mounted" => (isLoading <=> Len(inflight) > 0)

C9_ProviderResolution ==
    pc = "mounted"
        => \A i \in 1..Len(issued) :
              issued[i].providerId =
                  getProviderId(registry, Props(provider, serviceId, requiredScopes))

IssuedForCurrent ==
    {i \in 1..Len(issued) :
        issued[i].providerId =
            getProviderId(registry, Props(provider, serviceId, requiredScopes))}

\* C11: after the provider prop of the mounted component changes, a fetch for
\* the provider id the props then resolve to is eventually issued, whether the
\* popover is open or closed, provided every fetch ends.
C11_RefetchOnProviderChange ==
    (pc = "mounted" /\ last.providerChanged)
        ~> (pc = "mounted" => IssuedForCurrent # {})

\* no fetch in flight and the loading indicator off
Quiescent == inflight = <<>> /\ ~isLoading

\* C12: with the popover open, an endpoint that answers every request with the
\* same list and a parent that passes each notified value back, the selector
\* reaches a state with no fetch in flight and isLoading false, having issued
\* finitely many fetches, and issues no fetch from there while neither the user
\* nor the parent acts (every fetch issued being answered).
C12_NoRefetchLoop ==
    /\ endpoint.fixed ~> Quiescent
    /\ [][(endpoint.fixed /\ Quiescent) => (Quiescent' /\ issued' = issued)]_vars
    /\ [](endpoint.fixed => endpoint.fetches < MaxFetches)

\* the answer of the fixed endpoint changed the selection, which re-created
\* fetchCredentials and issued another fetch through the open effect; that
\* fetch was answered too and nothing is in flight
C12_Witness ==
    /\ pc = "mounted" /\ open
    /\ endpoint.fixed /\ endpoint.fetches >= 1
    /\ Quiescent
    /\ credentials = endpoint.list
    /\ selectedId # ""

====
